---- MODULE Spec2Model ----
(***************************************************************************)
(* Model of src/extract_interface_data.py: the extraction of interface     *)
(* records from a captured "display" transcript and the merge of the two   *)
(* record sets.                                                            *)
(*                                                                         *)
(* A transcript is a sequence of lexemes.  A lexeme is the newline "\n",   *)
(* one blank " ", or a word holding no whitespace.  Every literal of the   *)
(* program's regular expressions is written as the sequence of lexemes it  *)
(* consists of, and the transcripts drawn by Init are tokenised so that a  *)
(* literal can only occur on lexeme boundaries; on such text the operators *)
(* below compute what Python's re computes on the characters.              *)
(***************************************************************************)
EXTENDS Integers, Sequences, FiniteSets, TLC

VARIABLES pc, text, dataset1, dataset2, merged, excel

vars == <<pc, text, dataset1, dataset2, merged, excel>>

\* ------------------------------------------------------------ bounds
\* Most pieces a generated transcript is put together from.
MaxPieces == 4
\* Most rows of a dataset handed to merge_datasets directly.
MaxRows == 2

\* ------------------------------------------------------------ lexemes
NL == "\n"
SP == " "

\* DEFAULT_VALUE (line 12) is a fixed non-ASCII text; an ASCII stand-in.
DEFAULT_VALUE == "<not-captured>"

\* A group that took no part in the match (match.group(i) is None), and one
\* that captured the lexemes s.
None == [set |-> FALSE, val |-> <<>>]
Group(s) == [set |-> TRUE, val |-> s]

\* \s : the transcripts hold no whitespace but blank and newline.
IsSpace(a) == a \in {NL, SP}
\* \S
IsNonSpace(a) == ~IsSpace(a)
\* [\S ]
IsLineChar(a) == a # NL

RECURSIVE Concat(_)
\* The string a sequence of lexemes spells.
Concat(s) == IF s = <<>> THEN "" ELSE Head(s) \o Concat(Tail(s))

RECURSIVE CharLen(_)
\* The number of characters of a sequence of lexemes.
CharLen(s) == IF s = <<>> THEN 0 ELSE Len(Head(s)) + CharLen(Tail(s))

Min(S) == CHOOSE x \in S : \A y \in S : x <= y
Max(S) == CHOOSE x \in S : \A y \in S : x >= y

\* The least and the greatest member of a set of numbers, none if empty.
Lowest(S) == {x \in S : \A y \in S : x <= y}
Highest(S) == {x \in S : \A y \in S : x >= y}

\* The tuples of C whose first component is greatest.
Best(C) == {c \in C : \A d \in C : c[1] >= d[1]}

\* The kept positions keep[1]..keep[n] of s, as a sequence.
Between(s, keep) == IF keep = {} THEN <<>> ELSE SubSeq(s, Min(keep), Max(keep))

\* str.strip(): leading and trailing whitespace removed.
Strip(s) == Between(s, {i \in 1..Len(s) : IsNonSpace(s[i])})

\* ------------------------------------------------------------ regex pieces
\* ^ under re.MULTILINE: the start of the text or just after a newline.
LineStart(t, i) == i = 1 \/ (i >= 2 /\ i <= Len(t) + 1 /\ t[i - 1] = NL)

\* The literal lit occurs in t at position i.
LitAt(t, i, lit) ==
  /\ i >= 1
  /\ i + Len(lit) - 1 <= Len(t)
  /\ \A k \in 1..Len(lit) : t[i + k - 1] = lit[k]

\* A lexeme is of a character class: "s" is \s, "S" is \S, "S " is [\S ].
InClass(a, cls) ==
  CASE cls = "s" -> IsSpace(a)
    [] cls = "S" -> IsNonSpace(a)
    [] cls = "S " -> IsLineChar(a)

\* The number of lexemes of the class from position p on (p <= Len(t) + 1).
RunLen(t, p, cls) ==
  Min({q \in p..(Len(t) + 1) : q = Len(t) + 1 \/ ~InClass(t[q], cls)}) - p

\* The lengths n >= 1 of a run of \S at p that a comma follows.
CommaLens(t, p) ==
  {n \in 1..RunLen(t, p, "S") : p + n <= Len(t) /\ t[p + n] = ","}

\* The length a capture group of the given kind takes at position p (no
\* length when it cannot match there):
\*   "word"         (\S+)          greedy, nothing follows
\*   "line"         ([\S ]+)       greedy, nothing follows
\*   "lazy_comma"   (\S+?)(?=,)    the shortest run a comma follows
\*   "greedy_comma" (\S+)(?=,)     the longest run a comma follows
CapLens(t, p, cap) ==
  CASE cap = "word" -> {n \in {RunLen(t, p, "S")} : n >= 1}
    [] cap = "line" -> {n \in {RunLen(t, p, "S ")} : n >= 1}
    [] cap = "lazy_comma" -> Lowest(CommaLens(t, p))
    [] cap = "greedy_comma" -> Highest(CommaLens(t, p))

\* The lengths the leading part of an alternative can take at position i:
\*   "none"   nothing
\*   "ws"     \s*        any number of whitespace characters
\*   "tok40"  \S{1,40}   one to forty non-whitespace characters
LeadLens(t, i, lead) ==
  CASE lead = "none" -> {0}
    [] lead = "ws" -> 0..RunLen(t, i, "s")
    [] lead = "tok40" ->
         {n \in 1..RunLen(t, i, "S") : CharLen(SubSeq(t, i, i + n - 1)) \in 1..40}

\* An alternative of a pattern: anchor, leading part, literal, an optional
\* blank (" ?"), and its one capture group.
Alt(anchor, lead, lit, optsp, cap) ==
  [anchor |-> anchor, lead |-> lead, lit |-> lit, optsp |-> optsp, cap |-> cap]

\* The anchor of an alternative holds at position i:
\*   "none"   unanchored
\*   "ml"     ^ with re.MULTILINE
\*   "start"  ^ without flags
AnchorAt(t, i, anchor) ==
  CASE anchor = "none" -> TRUE
    [] anchor = "ml" -> LineStart(t, i)
    [] anchor = "start" -> i = 1

\* Where the group can start after a literal that ends before p: after the
\* optional blank, or at p.
OptStarts(t, p, optsp) ==
  IF optsp /\ p <= Len(t) /\ t[p] = SP THEN {p, p + 1} ELSE {p}

\* The span <<first, last>> of the capture group of alternative a when its
\* literal ends before p: the optional blank is greedy, and is given back
\* when the group cannot follow it.
GroupSpans(t, p, a) ==
  {<<c[1], c[1] + c[2] - 1>> :
     c \in Best(UNION {{<<q, n>> : n \in CapLens(t, q, a.cap)} :
                         q \in OptStarts(t, p, a.optsp)})}

\* The match of alternative a that starts at position i, as the set of the
\* span of its group (empty: no match).  The leading part is greedy: the
\* match is the one with the longest leading part the rest can follow.
AltSpans(t, i, a) ==
  IF ~AnchorAt(t, i, a.anchor) THEN {}
  ELSE {c[2] : c \in Best(UNION {{<<m, s>> : s \in GroupSpans(t, i + m + Len(a.lit), a)} :
                                   m \in {n \in LeadLens(t, i, a.lead) :
                                            LitAt(t, i + n, a.lit)}})}

\* Every <<start, alternative, group span>> at which the pattern matches.
Matches(alts, t) ==
  UNION {UNION {{<<i, k, s>> : s \in AltSpans(t, i, alts[k])} : k \in 1..Len(alts)} :
           i \in 1..Len(t)}

\* The match the engine reports: the leftmost start, and there the first
\* alternative in the order written.
Leftmost(M) ==
  {m \in M : \A n \in M : m[1] < n[1] \/ (m[1] = n[1] /\ m[2] <= n[2])}

\* The match object of match m: the groups of the other alternatives are
\* None, and lastindex is the group that matched.
MatchObject(alts, t, m) ==
  [found |-> TRUE, start |-> m[1], last |-> m[3][2], lastindex |-> m[2],
   groups |-> [j \in 1..Len(alts) |->
                 IF j = m[2] THEN Group(SubSeq(t, m[3][1], m[3][2])) ELSE None]]

FirstOf(alts, t, M) ==
  IF M = {} THEN [found |-> FALSE] ELSE MatchObject(alts, t, CHOOSE m \in M : TRUE)

\* re.search(pattern, t).
ReSearch(alts, t) == FirstOf(alts, t, Leftmost(Matches(alts, t)))

\* Lines 21-27: the first group that is not empty, stripped; the whole
\* match, stripped, when there is none.
GroupValue(t, match, truthy) ==
  Concat(Strip(IF truthy # {} THEN match.groups[Min(truthy)].val
               ELSE SubSeq(t, match.start, match.last)))

\* Lines 18-27.
MatchValue(t, match) ==
  IF ~match.found THEN DEFAULT_VALUE
  ELSE GroupValue(t, match, {index \in 1..match.lastindex :
                               /\ match.groups[index].set
                               /\ match.groups[index].val # <<>>})

\* _first_match (lines 16-27).
first_match(alts, t) == MatchValue(t, ReSearch(alts, t))

\* ------------------------------------------------------------ patterns
display_current_configuration == <<"display", SP, "current-configuration">>
display_interface == <<"display", SP, "interface">>
PROMPT == "<"

\* The pattern of each configuration field (lines 50-58), all re.MULTILINE:
\*   r"^interface (\S+)"
\*   r"^\s*ip address ([\S ]+)"
\*   r"^\s*port default ([\S ]+)|^\s*vlan-type dot1q ([\S ]+)
\*     |^\s*port trunk allow-pass ([\S ]+)"
\*   r"^\s*ip binding vpn-instance ([\S ]+)"
\*   r"^\s*description ([\S ]+)"
CfgPatterns ==
  [interface_name |-> <<Alt("ml", "none", <<"interface", SP>>, FALSE, "word")>>,
   ipv4_address |-> <<Alt("ml", "ws", <<"ip", SP, "address", SP>>, FALSE, "line")>>,
   vlan_id |->
     <<Alt("ml", "ws", <<"port", SP, "default", SP>>, FALSE, "line"),
       Alt("ml", "ws", <<"vlan-type", SP, "dot1q", SP>>, FALSE, "line"),
       Alt("ml", "ws", <<"port", SP, "trunk", SP, "allow-pass", SP>>, FALSE, "line")>>,
   vpn |->
     <<Alt("ml", "ws", <<"ip", SP, "binding", SP, "vpn-instance", SP>>, FALSE, "line")>>,
   description |-> <<Alt("ml", "ws", <<"description", SP>>, FALSE, "line")>>]

current_state_colon == <<SP, "current", SP, "state", SP, ":">>

\* The pattern of each status field (lines 98-120); only the second is
\* re.MULTILINE:
\*   r"^(\S+)"
\*   r"^\S{1,40} current state : ([\S ]+)"
\*   r"Line protocol current state : ([\S ]+)"
\*   r"Port BW: (\S+?)(?=,)|Current BW: ?(\S+?)(?=,)"
\*   r"Transceiver Mode: (\S+)|Media type: (\S+)"
\*   r"Rx Power: (\S+)"
\*   r"Tx Power: (\S+)"
\*   r"WaveLength: (\S+)(?=,)"
\*   r"Transmission Distance: (\S+)"
\*   r"CRC: (\S+)"
IntfPatterns ==
  [interface_name |-> <<Alt("start", "none", <<>>, FALSE, "word")>>,
   current_state |->
     <<Alt("ml", "tok40", current_state_colon \o <<SP>>, FALSE, "line")>>,
   link_state |->
     <<Alt("none", "none",
           <<"Line", SP, "protocol">> \o current_state_colon \o <<SP>>, FALSE, "line")>>,
   speed |->
     <<Alt("none", "none", <<"Port", SP, "BW:", SP>>, FALSE, "lazy_comma"),
       Alt("none", "none", <<"Current", SP, "BW:">>, TRUE, "lazy_comma")>>,
   module_type |->
     <<Alt("none", "none", <<"Transceiver", SP, "Mode:", SP>>, FALSE, "word"),
       Alt("none", "none", <<"Media", SP, "type:", SP>>, FALSE, "word")>>,
   rx_power |-> <<Alt("none", "none", <<"Rx", SP, "Power:", SP>>, FALSE, "word")>>,
   tx_power |-> <<Alt("none", "none", <<"Tx", SP, "Power:", SP>>, FALSE, "word")>>,
   wavelength |-> <<Alt("none", "none", <<"WaveLength:", SP>>, FALSE, "greedy_comma")>>,
   distance |->
     <<Alt("none", "none", <<"Transmission", SP, "Distance:", SP>>, FALSE, "word")>>,
   crc |-> <<Alt("none", "none", <<"CRC:", SP>>, FALSE, "word")>>]

\* ------------------------------------------------------------ datasets
\* The columns of the two record shapes, named after the variables that
\* fill them (the program's headers are non-ASCII texts).
CfgColumns == <<"interface_name", "ipv4_address", "vlan_id", "vpn", "description">>
IntfColumns ==
  <<"interface_name", "current_state", "link_state", "speed", "module_type",
    "rx_power", "tx_power", "wavelength", "distance", "crc">>

\* pd.DataFrame(columns=...) and pd.DataFrame(rows): a frame built from a
\* list of dicts takes its columns from the dicts, and has none when the
\* list is empty.
EmptyFrame(columns) == [columns |-> columns, rows |-> <<>>]
DataFrame(rows, keys) ==
  [columns |-> IF rows = <<>> THEN <<>> ELSE keys, rows |-> rows]
\* DataFrame.empty
IsEmpty(df) == Len(df.rows) = 0 \/ Len(df.columns) = 0

\* ------------------------------------------------------------ sections
\* The spans <<first, last>> r"<marker>[\s\S]+?(?=^<)" (re.MULTILINE) can
\* match: from a marker, through at least one more character, to just
\* before a line that begins with "<".
SectionSpans(marker, t) ==
  UNION {{<<i, j - 1>> : j \in {q \in (i + Len(marker) + 1)..Len(t) :
                                  LineStart(t, q) /\ t[q] = PROMPT}} :
           i \in {n \in 1..Len(t) : LitAt(t, n, marker)}}

\* The span the engine reports: the leftmost start, the nearest end.
Nearest(S) ==
  {s \in S : \A r \in S : s[1] < r[1] \/ (s[1] = r[1] /\ s[2] <= r[2])}

SectionAt(t, sp) == [found |-> TRUE, section |-> SubSeq(t, sp[1], sp[2])]

SectionOf(t, S) ==
  IF S = {} THEN [found |-> FALSE] ELSE SectionAt(t, CHOOSE sp \in S : TRUE)

\* re.search(marker + r"[\s\S]+?(?=^<)", t, re.MULTILINE) (lines 31-33, 74).
SectionSearch(marker, t) == SectionOf(t, Nearest(SectionSpans(marker, t)))

\* ------------------------------------------------------------ chunks
\* The spans r"^interface [\s\S]+?^#" (re.MULTILINE) can match from
\* position p on: a line that begins with "interface ", at least one more
\* character, a "#" that begins a line.
CfgChunkSpans(s, p) ==
  UNION {{<<i, j>> : j \in {q \in (i + 3)..Len(s) : LineStart(s, q) /\ s[q] = "#"}} :
           i \in {n \in p..Len(s) : LineStart(s, n) /\ LitAt(s, n, <<"interface", SP>>)}}

\* The spans r"\S+ current state :[\s\S]+?(?=\r?\n\r?\n)" can match from
\* position p on: a run of \S, the literal, at least one more character,
\* up to just before two newlines.  (The transcripts hold no "\r".)
IntfChunkSpans(s, p) ==
  UNION {{<<i, k - 1>> :
            k \in {q \in (i + 2 + Len(current_state_colon))..(Len(s) - 1) :
                     /\ s[q] = NL /\ s[q + 1] = NL
                     /\ \E n \in 1..RunLen(s, i, "S") :
                          /\ LitAt(s, i + n, current_state_colon)
                          /\ q >= i + n + Len(current_state_colon) + 1}} :
           i \in p..Len(s)}

RECURSIVE CfgChunksFrom(_, _)
RECURSIVE IntfChunksFrom(_, _)

\* The chunk of span sp, and the chunks the scan finds after it.
ChunkAt(s, sp, cfg) ==
  <<SubSeq(s, sp[1], sp[2])>>
  \o (IF cfg THEN CfgChunksFrom(s, sp[2] + 1) ELSE IntfChunksFrom(s, sp[2] + 1))

ChunkThen(s, S, cfg) ==
  IF S = {} THEN <<>> ELSE ChunkAt(s, CHOOSE sp \in S : TRUE, cfg)

\* re.findall(r"^interface [\s\S]+?^#", s, re.MULTILINE) from position p on
\* (line 46): non-overlapping, leftmost first; the scan goes on after "#".
CfgChunksFrom(s, p) == ChunkThen(s, Nearest(CfgChunkSpans(s, p)), TRUE)

\* re.findall(r"\S+ current state :[\s\S]+?(?=\r?\n\r?\n)", s) from
\* position p on (lines 92-94); the scan goes on at the two newlines, which
\* the lookahead does not consume.
IntfChunksFrom(s, p) == ChunkThen(s, Nearest(IntfChunkSpans(s, p)), FALSE)

\* ------------------------------------------------------------ records
\* The body of the loops of lines 49-68 and 97-135: one row of a chunk,
\* each field the first match of its pattern.
BuildRow(patterns, chunk) ==
  [c \in DOMAIN patterns |-> first_match(patterns[c], chunk)]

\* The rows of a section's chunks, as a frame.
BuildFrame(patterns, chunks, columns) ==
  DataFrame([n \in 1..Len(chunks) |-> BuildRow(patterns, chunks[n])], columns)

\* CfgFrame with the branch of lines 34-43 returning pd.DataFrame(), a frame
\* without columns.
CfgFrameBare(section_match) ==
  IF ~section_match.found THEN EmptyFrame(<<>>)
  ELSE BuildFrame(CfgPatterns, CfgChunksFrom(section_match.section, 1), CfgColumns)

\* Lines 34-70: the frame of the fixed columns when no section is found,
\* the frame of the rows of the section's chunks otherwise.
CfgFrame(section_match) ==
  IF ~section_match.found THEN EmptyFrame(CfgColumns)
  ELSE BuildFrame(CfgPatterns, CfgChunksFrom(section_match.section, 1), CfgColumns)

\* parse_display_current_configuration (lines 30-70).
parse_display_current_configuration(t) ==
  CfgFrame(SectionSearch(display_current_configuration, t))

\* Lines 75-137, likewise.
IntfFrame(section_match) ==
  IF ~section_match.found THEN EmptyFrame(IntfColumns)
  ELSE BuildFrame(IntfPatterns, IntfChunksFrom(section_match.section, 1), IntfColumns)

\* parse_display_interface (lines 73-137).
parse_display_interface(t) == IntfFrame(SectionSearch(display_interface, t))

\* ------------------------------------------------------------ merge
KEY == "interface_name"

RECURSIVE Distinct(_)
\* The values of a sequence, each once, in the order they first appear.
Distinct(s) ==
  IF s = <<>> THEN <<>>
  ELSE (IF \E i \in 2..Len(s) : s[i] = s[1] THEN <<>> ELSE <<s[1]>>) \o Distinct(Tail(s))

\* The values of the key column of a frame, row by row.
KeysOf(df) == [i \in 1..Len(df.rows) |-> df.rows[i][KEY]]

RowsOf(df, k) == SelectSeq(df.rows, LAMBDA r : r[KEY] = k)

\* A row of the join: the cells of l and of r.
JoinRow(l, r) ==
  [c \in (DOMAIN l) \cup (DOMAIN r) |-> IF c \in DOMAIN l THEN l[c] ELSE r[c]]

\* The rows an outer join gives one key: every pair of a left and a right
\* row with that key, or the rows of one side alone when the other has
\* none.  A column the one side would have filled is unset there (NaN in
\* the frame): the row does not have it in its domain.
KeyRows(L, R) ==
  IF R = <<>> THEN L
  ELSE IF L = <<>> THEN R
  ELSE [n \in 1..(Len(L) * Len(R)) |->
          JoinRow(L[((n - 1) \div Len(R)) + 1], R[((n - 1) % Len(R)) + 1])]

RECURSIVE FlattenRows(_)
FlattenRows(ss) == IF ss = <<>> THEN <<>> ELSE Head(ss) \o FlattenRows(Tail(ss))

JoinOn(d1, d2, keys) ==
  [columns |-> d1.columns \o SelectSeq(d2.columns, LAMBDA c : c # KEY),
   rows |-> FlattenRows([n \in 1..Len(keys) |->
                           KeyRows(RowsOf(d1, keys[n]), RowsOf(d2, keys[n]))])]

\* pd_merge_outer with how="left": the keys of dataset1 only.
pd_merge_left(d1, d2) == JoinOn(d1, d2, Distinct(KeysOf(d1)))

\* pd.merge(dataset1, dataset2, on=KEY, how="outer") (line 149).  The rows
\* are listed key by key; the order in which pandas lists the keys (sorted)
\* is not modelled: they are listed in the order they first appear.
pd_merge_outer(d1, d2) == JoinOn(d1, d2, Distinct(KeysOf(d1) \o KeysOf(d2)))

\* merge_datasets (lines 140-149).
merge_datasets(d1, d2) ==
  IF IsEmpty(d1) /\ IsEmpty(d2) THEN EmptyFrame(<<>>)
  ELSE IF IsEmpty(d1) THEN d2
  ELSE IF IsEmpty(d2) THEN d1
  ELSE pd_merge_outer(d1, d2)

\* ------------------------------------------------------------ transcripts
DEV == <<PROMPT, "dev>">>

\* The pieces generated transcripts are put together from.
\* "<dev>display current-configuration\n"
PcCfgCmd == DEV \o display_current_configuration \o <<NL>>
\* "<dev>display interface\n"
PcIntfCmd == DEV \o display_interface \o <<NL>>
\* "<dev>display interface brief\n": another command
PcBriefCmd == DEV \o display_interface \o <<SP, "brief", NL>>
\* "interface A\n description uplink\n#\n": a closed block
PcBlockA ==
  <<"interface", SP, "A", NL, SP, "description", SP, "uplink", NL, "#", NL>>
\* "interface B\n ip address 10.0.0.1 255.255.255.0\n": a block left open
PcOpenB ==
  <<"interface", SP, "B", NL,
    SP, "ip", SP, "address", SP, "10.0.0.1", SP, "255.255.255.0", NL>>
\* "A current state : UP\nLine protocol current state : DOWN\n"
PcEntryA ==
  <<"A">> \o current_state_colon \o <<SP, "UP", NL>>
  \o <<"Line", SP, "protocol">> \o current_state_colon \o <<SP, "DOWN", NL>>
\* "\n": a blank line
PcBlank == <<NL>>
\* "<dev>": the prompt that follows the last output
PcPrompt == DEV

Pieces ==
  {PcCfgCmd, PcIntfCmd, PcBriefCmd, PcBlockA, PcOpenB, PcEntryA, PcBlank, PcPrompt}

RECURSIVE Generated(_)
\* The transcripts made of at most n pieces.
Generated(n) ==
  IF n = 0 THEN {<<>>}
  ELSE {t \o q : t \in Generated(n - 1), q \in Pieces \cup {<<>>}}

DEVICE == <<PROMPT, "device>">>

\* The end-to-end scenario: a configuration section with one block, a
\* prompt line, a status section with one entry, a blank-line pair, and
\* nothing after it.
ScenarioEndToEnd ==
  DEVICE \o display_current_configuration \o <<NL>>
  \o <<"interface", SP, "GE1/0/1", NL>>
  \o <<SP, "ip", SP, "address", SP, "10.0.0.1", SP, "255.255.255.0", NL>>
  \o <<SP, "description", SP, "uplink", NL>>
  \o <<"#", NL>>
  \o DEVICE \o display_interface \o <<NL>>
  \o <<"GE1/0/1">> \o current_state_colon \o <<SP, "UP", NL>>
  \o <<"Line", SP, "protocol">> \o current_state_colon \o <<SP, "UP", NL>>
  \o <<NL>>

\* The same, followed by the next prompt.
ScenarioEndToEndPrompt == ScenarioEndToEnd \o DEVICE

\* A block whose "vlan-type dot1q" line comes before its "port default"
\* line.
ScenarioVlanOrder ==
  PcCfgCmd
  \o <<"interface", SP, "A", NL>>
  \o <<SP, "vlan-type", SP, "dot1q", SP, "5", NL>>
  \o <<SP, "port", SP, "default", SP, "vlan", SP, "7", NL>>
  \o <<"#", NL>>
  \o DEV

\* A block whose description is blanks only.
ScenarioBlankDescription ==
  PcCfgCmd
  \o <<"interface", SP, "A", NL>>
  \o <<SP, "description", SP, SP, SP, NL>>
  \o <<"#", NL>>
  \o DEV

Scenarios ==
  {ScenarioEndToEnd, ScenarioEndToEndPrompt, ScenarioVlanOrder, ScenarioBlankDescription}

Transcripts == Generated(MaxPieces) \cup Scenarios

\* ------------------------------------------------------------ process_file
Unset == EmptyFrame(<<>>)

\* read_text (line 219): the transcript is any of Transcripts.
Init ==
  /\ pc = "read"
  /\ text \in Transcripts
  /\ dataset1 = Unset
  /\ dataset2 = Unset
  /\ merged = Unset
  /\ excel = Unset

\* line 221
ParseCfg ==
  /\ pc = "read"
  /\ dataset1' = parse_display_current_configuration(text)
  /\ pc' = "cfg"
  /\ UNCHANGED <<text, dataset2, merged, excel>>

\* line 222
ParseIntf ==
  /\ pc = "cfg"
  /\ dataset2' = parse_display_interface(text)
  /\ pc' = "intf"
  /\ UNCHANGED <<text, dataset1, merged, excel>>

\* line 223
Merge ==
  /\ pc = "intf"
  /\ merged' = merge_datasets(dataset1, dataset2)
  /\ pc' = "merged"
  /\ UNCHANGED <<text, dataset1, dataset2, excel>>

\* line 225: the sheet holds the header row and the rows of the table.
WriteExcel ==
  /\ pc = "merged"
  /\ excel' = merged
  /\ pc' = "done"
  /\ UNCHANGED <<text, dataset1, dataset2, merged>>

Next == ParseCfg \/ ParseIntf \/ Merge \/ WriteExcel

Spec == Init /\ [][Next]_vars

\* ------------------------------------------------------------ merge alone
\* merge_datasets on datasets of at most MaxRows rows: the frames the two
\* parsers can return, with interface names of MergeNames.
MergeNames == {"Eth1", "Eth2"}

CfgRowOf(name, description) ==
  [c \in DOMAIN CfgPatterns |->
     IF c = KEY THEN name ELSE IF c = "description" THEN description ELSE DEFAULT_VALUE]

IntfRowOf(name, current_state) ==
  [c \in DOMAIN IntfPatterns |->
     IF c = KEY THEN name ELSE IF c = "current_state" THEN current_state
     ELSE DEFAULT_VALUE]

CfgRowPool == {CfgRowOf(n, d) : n \in MergeNames, d \in {DEFAULT_VALUE, "uplink"}}
IntfRowPool == {IntfRowOf(n, c) : n \in MergeNames, c \in {"UP", "DOWN"}}

RECURSIVE RowSeqs(_, _)
\* The sequences of at most n rows of a pool.
RowSeqs(pool, n) ==
  IF n = 0 THEN {<<>>}
  ELSE RowSeqs(pool, n - 1) \cup {Append(r, x) : r \in RowSeqs(pool, n - 1), x \in pool}

\* What a parser returns: the frame of its rows, or the frame of the fixed
\* columns and no row when its marker is absent.
CfgFrames ==
  {DataFrame(r, CfgColumns) : r \in RowSeqs(CfgRowPool, MaxRows)}
  \cup {EmptyFrame(CfgColumns)}
IntfFrames ==
  {DataFrame(r, IntfColumns) : r \in RowSeqs(IntfRowPool, MaxRows)}
  \cup {EmptyFrame(IntfColumns)}

InitMerge ==
  /\ pc = "intf"
  /\ text = <<>>
  /\ dataset1 \in CfgFrames
  /\ dataset2 \in IntfFrames
  /\ merged = Unset
  /\ excel = Unset

NextMerge == Merge \/ WriteExcel

SpecMerge == InitMerge /\ [][NextMerge]_vars

\* ------------------------------------------------------------ claims
\* Where process_file stands: dataset1 is parsed, dataset2 is parsed, the
\* table is merged.
Parsed1 == pc \in {"cfg", "intf", "merged", "done"}
Parsed2 == pc \in {"intf", "merged", "done"}
Merged == pc \in {"merged", "done"}

\* The text holds the literal somewhere.
Contains(t, lit) == \E i \in 1..Len(t) : LitAt(t, i, lit)

\* The n-th smallest member of a set of numbers, as a sequence.
Ascending(S) ==
  [n \in 1..Cardinality(S) |-> CHOOSE i \in S : Cardinality({j \in S : j < i}) = n - 1]

\* The chunks the two parsers cut out of a transcript.
CodeCfgChunks(t) ==
  LET sm == SectionSearch(display_current_configuration, t)
  IN  IF sm.found THEN CfgChunksFrom(sm.section, 1) ELSE <<>>
CodeIntfChunks(t) ==
  LET sm == SectionSearch(display_interface, t)
  IN  IF sm.found THEN IntfChunksFrom(sm.section, 1) ELSE <<>>

\* The rows of a sequence of chunks.
RowsOfChunks(patterns, chunks) ==
  [n \in 1..Len(chunks) |-> BuildRow(patterns, chunks[n])]

\* The row the end-to-end scenario is to give.
EndToEndRow(row) ==
  /\ {"interface_name", "ipv4_address", "vlan_id", "vpn", "description",
      "current_state", "link_state"} \subseteq DOMAIN row
  /\ row.interface_name = "GE1/0/1"
  /\ row.ipv4_address = "10.0.0.1 255.255.255.0"
  /\ row.description = "uplink"
  /\ row.current_state = "UP"
  /\ row.link_state = "UP"
  /\ row.vlan_id = DEFAULT_VALUE
  /\ row.vpn = DEFAULT_VALUE

\* C1: for the end-to-end scenario (one configuration block for GE1/0/1
\* with an IP address and a description, a prompt line, one status entry
\* for GE1/0/1, a blank-line pair and nothing after it) the merged table
\* has exactly one row, for GE1/0/1, carrying the IP address, the
\* description, admin state UP and link state UP, with VLAN id and VPN
\* instance equal to the sentinel.
C1_EndToEnd ==
  (pc = "done" /\ text = ScenarioEndToEnd) =>
    (Len(merged.rows) = 1 /\ EndToEndRow(merged.rows[1]))

\* The end-to-end scenario gives that row once a prompt follows the blank-line pair.
EndToEndWithPrompt ==
  (pc = "done" /\ text = ScenarioEndToEndPrompt) =>
    (Len(merged.rows) = 1 /\ EndToEndRow(merged.rows[1]))

\* The section from the first marker to just before the next line that
\* begins with "<", or to the end of the transcript.
ClaimedSection(marker, t) ==
  IF ~Contains(t, marker) THEN [found |-> FALSE]
  ELSE LET i == Min({n \in 1..Len(t) : LitAt(t, n, marker)})
           e == Min({q \in (i + 1)..(Len(t) + 1) :
                       q = Len(t) + 1 \/ (LineStart(t, q) /\ t[q] = PROMPT)}) - 1
       IN  SectionAt(t, <<i, e>>)

\* C2: when the command marker occurs in the transcript the section is
\* found, and it runs from the marker to just before the next line that
\* begins with "<", or to the end of the transcript when no such line
\* follows; so each parser returns the rows of that section, also when the
\* section is the last thing in the transcript.
C2_SectionEnd ==
  /\ Parsed1 =>
       dataset1.rows =
         CfgFrame(ClaimedSection(display_current_configuration, text)).rows
  /\ Parsed2 =>
       dataset2.rows = IntfFrame(ClaimedSection(display_interface, text)).rows

\* The capture of the earliest-listed alternative that matches anywhere.
PriorityValue(alts, t) ==
  LET matching == {k \in 1..Len(alts) : ReSearch(<<alts[k]>>, t).found}
  IN  IF matching = {} THEN DEFAULT_VALUE
      ELSE first_match(<<alts[Min(matching)]>>, t)

PriorityRows(patterns, chunks) ==
  [n \in 1..Len(chunks) |-> [c \in DOMAIN patterns |-> PriorityValue(patterns[c], chunks[n])]]

\* C3: when several alternatives of a field's pattern match somewhere in
\* the chunk, the field is the capture of the earliest-listed alternative
\* that matches, whatever the order of the matching lines in the chunk.
C3_Priority ==
  /\ Parsed1 => dataset1.rows = PriorityRows(CfgPatterns, CodeCfgChunks(text))
  /\ Parsed2 => dataset2.rows = PriorityRows(IntfPatterns, CodeIntfChunks(text))

\* The names of a frame, the rows of the merged table and of a frame with a
\* name, and the case of merge_datasets that joins.
NamesOf(df) == {df.rows[i][KEY] : i \in 1..Len(df.rows)}
MergedRowsOf(k) == {n \in 1..Len(merged.rows) : merged.rows[n][KEY] = k}
CountOf(df, k) == Cardinality({n \in 1..Len(df.rows) : df.rows[n][KEY] = k})
Joined == Merged /\ ~IsEmpty(dataset1) /\ ~IsEmpty(dataset2)

\* A name of one side only: the cells of the other side's columns are unset
\* (and so not the sentinel either).
OneSidedUnset ==
  \A n \in 1..Len(merged.rows) :
    LET row == merged.rows[n]
    IN  /\ row[KEY] \notin NamesOf(dataset2) =>
             DOMAIN row = {CfgColumns[i] : i \in 1..Len(CfgColumns)}
        /\ row[KEY] \notin NamesOf(dataset1) =>
             DOMAIN row = {IntfColumns[i] : i \in 1..Len(IntfColumns)}

\* C4 as claimed: when both datasets are non-empty the merged table has
\* exactly one row for every interface name of either dataset (as many rows
\* as distinct names), also when a name occurs in several rows of a
\* dataset; a name of one side only has the other side's columns unset.
C4_OneRowPerName ==
  Joined =>
    /\ \A k \in NamesOf(dataset1) \cup NamesOf(dataset2) :
         Cardinality(MergedRowsOf(k)) = 1
    /\ Len(merged.rows) = Cardinality(NamesOf(dataset1) \cup NamesOf(dataset2))
    /\ OneSidedUnset

\* The rows a name with m rows on the one side and n on the other yields.
RowsFor(m, n) == IF m = 0 THEN n ELSE IF n = 0 THEN m ELSE m * n

\* C4 as amended: when both datasets are non-empty, every interface name
\* of either dataset yields at least one row and no other name does: a name
\* with m rows in the one dataset and n rows in the other yields m * n
\* rows, and a name of one side only yields as many rows as it has there,
\* the other side's columns unset (not the sentinel); so there is exactly
\* one row per name when no name occurs twice in a dataset.
C4_RowsPerName ==
  Joined =>
    /\ \A k \in NamesOf(dataset1) \cup NamesOf(dataset2) :
         /\ Cardinality(MergedRowsOf(k)) = RowsFor(CountOf(dataset1, k), CountOf(dataset2, k))
         /\ Cardinality(MergedRowsOf(k)) >= 1
    /\ NamesOf(merged) = NamesOf(dataset1) \cup NamesOf(dataset2)
    /\ OneSidedUnset
    /\ ((\A k \in NamesOf(dataset1) \cup NamesOf(dataset2) :
           CountOf(dataset1, k) <= 1 /\ CountOf(dataset2, k) <= 1)
        => Len(merged.rows) = Cardinality(NamesOf(dataset1) \cup NamesOf(dataset2)))

\* C4 witness: a join in which a name occurs twice on one side and once on the other,
\* and another name is on one side only.
C4_Witness ==
  /\ Joined
  /\ \E k \in NamesOf(dataset1) : CountOf(dataset1, k) = 2 /\ CountOf(dataset2, k) = 1
  /\ \E k \in NamesOf(dataset2) : k \notin NamesOf(dataset1)
  /\ Len(merged.rows) = 3

\* C5: whenever a parser returns zero rows, the marker absent or no chunk
\* matched in the section, the dataset still has the full column set of its
\* shape: five configuration columns, ten status columns.
C5_StableSchema ==
  /\ (Parsed1 /\ Len(dataset1.rows) = 0) => dataset1.columns = CfgColumns
  /\ (Parsed2 /\ Len(dataset2.rows) = 0) => dataset2.columns = IntfColumns

\* C6: for every transcript that does not contain "display
\* current-configuration", parse_display_current_configuration returns a
\* dataset of zero rows with exactly the five fixed columns; for every
\* transcript that does not contain "display interface",
\* parse_display_interface returns zero rows with exactly the ten fixed
\* columns.
C6_MarkerAbsent ==
  /\ (Parsed1 /\ ~Contains(text, display_current_configuration)) =>
       (dataset1.rows = <<>> /\ dataset1.columns = CfgColumns /\ Len(CfgColumns) = 5)
  /\ (Parsed2 /\ ~Contains(text, display_interface)) =>
       (dataset2.rows = <<>> /\ dataset2.columns = IntfColumns /\ Len(IntfColumns) = 10)

\* C6 witness: a transcript with a closed block, a status entry closed by a blank-line
\* pair and a prompt after them, but neither marker, has been parsed.
C6_Witness ==
  /\ pc = "done"
  /\ ~Contains(text, display_current_configuration)
  /\ ~Contains(text, display_interface)
  /\ Contains(text, PcBlockA \o PcEntryA \o PcBlank \o PcPrompt)
  /\ dataset1 = EmptyFrame(CfgColumns)
  /\ dataset2 = EmptyFrame(IntfColumns)

\* No cell of the frame is the empty string.
NoEmptyField(df) ==
  \A n \in 1..Len(df.rows) : \A c \in DOMAIN df.rows[n] : df.rows[n][c] # ""

\* C7: every field of every record the two record builders produce is a
\* non-empty string, the sentinel or trimmed captured text; a keyword
\* followed by blanks only gives the sentinel, never the empty string.
C7_NoEmptyField ==
  /\ Parsed1 => NoEmptyField(dataset1)
  /\ Parsed2 => NoEmptyField(dataset2)

\* The blocks from an "interface" line to the first line that is exactly
\* "#" before the next "interface" line, in document order.
ClaimedCfgChunks(s) ==
  LET starts == {i \in 1..Len(s) : LineStart(s, i) /\ LitAt(s, i, <<"interface", SP>>)}
      blockEnd(i) == Min({q \in (i + 1)..(Len(s) + 1) : q = Len(s) + 1 \/ q \in starts}) - 1
      closers(i) == {j \in i..blockEnd(i) :
                       LineStart(s, j) /\ s[j] = "#" /\ (j = Len(s) \/ s[j + 1] = NL)}
      closed == Ascending({i \in starts : closers(i) # {}})
  IN  [n \in 1..Len(closed) |-> SubSeq(s, closed[n], Min(closers(closed[n])))]

\* C8: within the located configuration section every "interface" block
\* closed by a line that is exactly "#" gives one record, in document
\* order, and a block never closed by "#", be it the last block or followed
\* by another "interface" block, gives none: no record has the name of an
\* unterminated block or fields of two blocks.
C8_CfgChunks ==
  Parsed1 =>
    LET sm == SectionSearch(display_current_configuration, text)
    IN  sm.found => dataset1.rows = RowsOfChunks(CfgPatterns, ClaimedCfgChunks(sm.section))

\* The entries from a "<token> current state :" to the next blank-line
\* pair or the end of the section, in document order.
RECURSIVE ClaimedIntfChunksFrom(_, _)
ClaimedIntfChunksFrom(s, p) ==
  LET heads == {i \in p..Len(s) :
                  /\ LitAt(s, i + RunLen(s, i, "S"), current_state_colon)
                  /\ RunLen(s, i, "S") >= 1
                  /\ i + RunLen(s, i, "S") + Len(current_state_colon) <= Len(s)}
  IN  IF heads = {} THEN <<>>
      ELSE LET i == Min(heads)
               e == i + RunLen(s, i, "S") + Len(current_state_colon) - 1
               k == Min({q \in (e + 2)..(Len(s) + 1) :
                           q = Len(s) + 1 \/ (q < Len(s) /\ s[q] = NL /\ s[q + 1] = NL)})
           IN  <<SubSeq(s, i, k - 1)>> \o ClaimedIntfChunksFrom(s, k)

\* C9: within the located status section every "<token> current state :"
\* that starts an entry gives one chunk, in document order, ending at the
\* next blank-line pair or, when none follows, at the end of the section:
\* the last entry is reported also when one newline and the next prompt
\* follow it.
C9_IntfChunks ==
  Parsed2 =>
    LET sm == SectionSearch(display_interface, text)
    IN  sm.found =>
          dataset2.rows = RowsOfChunks(IntfPatterns, ClaimedIntfChunksFrom(sm.section, 1))

\* The marker at position i is a command line: it ends its line, and its
\* line begins with it or with the prompt.
IsCommandLine(t, i, marker) ==
  /\ LitAt(t, i, marker)
  /\ (i + Len(marker) > Len(t) \/ t[i + Len(marker)] = NL)
  /\ LET ls == Max({q \in 1..i : LineStart(t, q)})
     IN  ls = i \/ t[ls] = PROMPT

\* The section starts at a command line, and there is no row without one.
StartsAtCommand(marker, df) ==
  /\ \A sp \in Nearest(SectionSpans(marker, text)) : IsCommandLine(text, sp[1], marker)
  /\ (~\E i \in 1..Len(text) : IsCommandLine(text, i, marker)) => df.rows = <<>>

\* C10: a marker in the middle of a line of another section's output, such
\* as the prefix of "display interface brief", never starts that marker's
\* section; only the marker that is the command line does, so a transcript
\* without that command line gives no row.
C10_LineOriented ==
  /\ Parsed1 => StartsAtCommand(display_current_configuration, dataset1)
  /\ Parsed2 => StartsAtCommand(display_interface, dataset2)

====
